---- MODULE Spec2Model ----
(***************************************************************************)
(* Model of src/objective.py: the ObjectiveTest class.                     *)
(*                                                                         *)
(* Texts are sequences of one-character strings.  The external annotator   *)
(* (nltk) and the lexical hierarchy (WordNet) are inputs: a sentence       *)
(* carries what the annotator answers for it, and lex is what the          *)
(* hierarchy answers.                                                      *)
(***************************************************************************)
EXTENDS Integers, Sequences, FiniteSets, TLC

VARIABLES
    summary,           \* self.summary as the annotator splits it: a sequence of sentences
    splitFails,        \* nltk.sent_tokenize(self.summary) raises
    lex,               \* the lexical hierarchy's answer to a noun lookup
    num_questions,     \* argument of generate_test
    pc,                \* position in generate_test / in the function under study
    sent_idx,          \* get_question_sets: sentences handled so far
    question_sets,     \* get_question_sets: records collected
    question_answers,  \* generate_test: records with Key > 3
    questions,         \* generate_test: output questions
    answers,           \* generate_test: output answers
    rand_num,          \* generate_test: last np.random.randint draw (-1 before the first)
    exc,               \* the exception generate_test ended with ("" when none)
    ret                \* identify_potential_questions: the value returned for summary[1]

vars == <<summary, splitFails, lex, num_questions, pc, sent_idx, question_sets,
          question_answers, questions, answers, rand_num, exc, ret>>

----------------------------------------------------------------------------
(* Bounds of the model *)

MaxTokens == 4        \* word tokens per sentence
MaxHyponyms == 9      \* sibling terms the hierarchy enumerates
MaxSentences == 3     \* sentences per corpus
MaxQuestions == 3     \* largest num_questions

(* Program constants *)

MinTokens == 4        \* objective.py:103  len(word_tokenize(sentence)) < 4
KeyInit == 99         \* objective.py:150  val = 99
KeyThreshold == 3     \* objective.py:53   question_set["Key"] > 3
BlankLen == 10        \* objective.py:170  "__________"
MaxSimilar == 8       \* objective.py:208  len(similar_words) == 8
LastWords == 2        \* objective.py:140  phrase.split()[-2:]

----------------------------------------------------------------------------
(* Text helpers *)

Min(a, b) == IF a < b THEN a ELSE b
Max(a, b) == IF a < b THEN b ELSE a

\* str.lower() on the letters of the model's alphabet (re.IGNORECASE folding)
Lower(c) ==
    CASE c = "F" -> "f"
      [] c = "T" -> "t"
      [] OTHER -> c

RECURSIVE Repeat(_, _)
\* s * n for a one-character s
Repeat(c, n) == IF n <= 0 THEN <<>> ELSE <<c>> \o Repeat(c, n - 1)

RECURSIVE Join(_, _)
\* sep.join(words)
Join(words, sep) ==
    IF Len(words) = 0 THEN <<>>
    ELSE IF Len(words) = 1 THEN words[1]
    ELSE words[1] \o sep \o Join(Tail(words), sep)

\* a character as the comparison sees it: folded when case is ignored
Fold(c, ignorecase) == IF ignorecase THEN Lower(c) ELSE c

\* text[i : i + len(pat)] == pat, ignoring case or not
MatchAt(text, pat, i, ignorecase) ==
    /\ i >= 1
    /\ i + Len(pat) - 1 <= Len(text)
    /\ \A k \in 1..Len(pat) :
          Fold(text[i + k - 1], ignorecase) = Fold(pat[k], ignorecase)

\* Python's `pat in text` on strings
Contains(text, pat) == \E i \in 1..(Len(text) + 1) : MatchAt(text, pat, i, FALSE)

\* index of the first occurrence of pat in text, 0 when none
FirstMatch(text, pat, ignorecase) ==
    IF \E i \in 1..(Len(text) + 1) : MatchAt(text, pat, i, ignorecase)
    THEN CHOOSE i \in 1..(Len(text) + 1) :
            /\ MatchAt(text, pat, i, ignorecase)
            /\ \A j \in 1..(i - 1) : ~MatchAt(text, pat, j, ignorecase)
    ELSE 0

\* text with the span [i, i + n) replaced by rep
Splice(text, i, n, rep) ==
    SubSeq(text, 1, i - 1) \o rep \o SubSeq(text, i + n, Len(text))

RECURSIVE ReplaceChar(_, _, _)
\* str.replace(a, b) for one-character a, b
ReplaceChar(s, a, b) ==
    IF Len(s) = 0 THEN <<>>
    ELSE <<IF s[1] = a THEN b ELSE s[1]>> \o ReplaceChar(Tail(s), a, b)

RECURSIVE SplitFrom(_, _, _)
\* str.split() continued at position i with the word cur in progress
SplitFrom(s, i, cur) ==
    IF i > Len(s) THEN (IF Len(cur) = 0 THEN <<>> ELSE <<cur>>)
    ELSE IF s[i] = " "
         THEN (IF Len(cur) = 0 THEN <<>> ELSE <<cur>>) \o SplitFrom(s, i + 1, <<>>)
         ELSE SplitFrom(s, i + 1, Append(cur, s[i]))

\* str.split(): the words between runs of blanks
Split(s) == SplitFrom(s, 1, <<>>)

\* seq[-n:]
LastN(seq, n) == SubSeq(seq, Max(1, Len(seq) - n + 1), Len(seq))

----------------------------------------------------------------------------
(* The annotator's answers for a sentence.                                  *)
(* A sentence is [toks, sep, charTag, tagFails]:                            *)
(*   toks      nltk.pos_tag(nltk.word_tokenize(sentence)): [w, t] pairs     *)
(*   sep       number of blanks between two words of the sentence text      *)
(*   charTag   the tag nltk.pos_tag(sentence) gives sentence[0]             *)
(*   tagFails  nltk.pos_tag(sentence) raises (a str is no token list)       *)

Tok(w, t) == [w |-> w, t |-> t]

\* the sentence as text
SentenceText(s) == Join([i \in 1..Len(s.toks) |-> s.toks[i].w], Repeat(" ", s.sep))

\* nltk.word_tokenize(sentence)
WordTokenize(s) == [i \in 1..Len(s.toks) |-> s.toks[i].w]

\* nltk.pos_tag(sentence): sentence is a str, so the tagger iterates over its
\* characters and tags[i] is (sentence[i], tag).  Only tags[0] is read.
PosTagSentence(s) ==
    LET text == SentenceText(s)
    IN  [i \in 1..Len(text) |->
            Tok(<<text[i]>>, IF i = 1 THEN s.charTag ELSE "SYM")]

----------------------------------------------------------------------------
(* Phrase chunker: nltk.RegexpParser over the grammar of lines 108-112.     *)
(* marks[i] = 0 when token i is outside every chunk, else the index of the  *)
(* first token of its chunk.                                                *)

RECURSIVE Run(_, _, _, _)
\* length of the run of unchunked tokens from i whose tag is in T
Run(toks, marks, i, T) ==
    IF i <= Len(toks) /\ marks[i] = 0 /\ toks[i].t \in T
    THEN 1 + Run(toks, marks, i + 1, T)
    ELSE 0

\* length of the greedy match of rule r starting at token i, 0 when none
MatchLen(toks, marks, r, i) ==
    IF r = 3
    THEN \* {<NNP>+<NNS>*}
         LET p == Run(toks, marks, i, {"NNP"})
         IN  IF p = 0 THEN 0 ELSE p + Run(toks, marks, i + p, {"NNS"})
    ELSE \* {<NN>+<IN|DT>*<NN>+} and {<NN>+<IN|DT>*<NNP>+}
         LET last == IF r = 1 THEN {"NN"} ELSE {"NNP"}
             n == Run(toks, marks, i, {"NN"})
             m == Run(toks, marks, i + n, {"IN", "DT"})
             k == Run(toks, marks, i + n + m, last)
         IN  IF n = 0 THEN 0
             ELSE IF k > 0 THEN n + m + k
             ELSE IF r = 1 /\ n >= 2 THEN n   \* <NN>+ gives its last NN back
             ELSE 0

RECURSIVE ApplyRule(_, _, _, _)
\* one chunk rule over the unchunked tokens, left to right from token i
ApplyRule(toks, marks, r, i) ==
    IF i > Len(toks) THEN marks
    ELSE LET n == MatchLen(toks, marks, r, i)
         IN  IF marks[i] # 0 \/ n = 0
             THEN ApplyRule(toks, marks, r, i + 1)
             ELSE ApplyRule(toks,
                            [j \in 1..Len(toks) |->
                                IF j >= i /\ j < i + n THEN i ELSE marks[j]],
                            r, i + n)

\* chunker.parse(pos_tokens): the three rules in the order of the grammar
ChunkParse(toks) ==
    LET m0 == [j \in 1..Len(toks) |-> 0]
        m1 == ApplyRule(toks, m0, 1, 1)
        m2 == ApplyRule(toks, m1, 2, 1)
    IN  ApplyRule(toks, m2, 3, 1)

RECURSIVE PhrasesFrom(_, _, _)
\* lines 121-128: the chunks in sentence order, each joined by one blank
PhrasesFrom(toks, marks, i) ==
    IF i > Len(toks) THEN <<>>
    ELSE IF marks[i] # i THEN PhrasesFrom(toks, marks, i + 1)
    ELSE LET n == Cardinality({j \in 1..Len(toks) : marks[j] = i})
         IN  <<Join([j \in 1..n |-> toks[i + j - 1].w], <<" ">>)>>
                \o PhrasesFrom(toks, marks, i + n)

NounPhrases(s) == PhrasesFrom(s.toks, ChunkParse(s.toks), 1)

----------------------------------------------------------------------------
(* Distractor generator: ObjectiveTest.answer_options.                      *)
(* lex is [synsets, hypernyms, hyponyms]: how many noun synsets the word    *)
(* has, how many hypernyms its first synset has, and the first lemma name   *)
(* of each hyponym of the first hypernym, in the hierarchy's order.         *)

\* the first 8 hyponyms are taken, then the word is dropped
SimilarWords_FirstEight(hyponyms, word, i, acc) ==
    LET Other(lemma) == ReplaceChar(lemma, "_", " ") # word
        first == SubSeq(hyponyms, 1, Min(MaxSimilar, Len(hyponyms)))
        kept == SelectSeq(first, Other)
    IN  [k \in 1..Len(kept) |-> ReplaceChar(kept[k], "_", " ")]

RECURSIVE SimilarWords(_, _, _, _)
\* lines 203-209: the loop over hyponyms, at hyponym i with similar_words = acc
SimilarWords(hyponyms, word, i, acc) ==
    IF i > Len(hyponyms) THEN acc
    ELSE LET similar_word == ReplaceChar(hyponyms[i], "_", " ")
             acc2 == IF similar_word # word THEN Append(acc, similar_word) ELSE acc
         IN  IF Len(acc2) = MaxSimilar THEN acc2
             ELSE SimilarWords(hyponyms, word, i + 1, acc2)

\* answer_options(word): [exc, val]; exc = "" when it returns val
answer_options(h, word) ==
    IF h.synsets = 0 THEN [exc |-> "", val |-> <<>>]
    ELSE IF h.hypernyms = 0 THEN [exc |-> "IndexError", val |-> <<>>]
    ELSE [exc |-> "", val |-> SimilarWords(h.hyponyms, word, 1, <<>>)]

----------------------------------------------------------------------------
(* Blank selector: ObjectiveTest.identify_potential_questions.              *)

NoRecord == [Answer |-> <<>>, Key |-> 0, Similar |-> <<>>, Question |-> <<>>]
ReturnNone == [kind |-> "None", exc |-> "", rec |-> NoRecord]
Raise(e) == [kind |-> "Raise", exc |-> e, rec |-> NoRecord]
Return(r) == [kind |-> "Record", exc |-> "", rec |-> r]

\* line 103: the sentence is not eligible
Ineligible(s) ==
    \/ PosTagSentence(s)[1].t = "RB"
    \/ Len(WordTokenize(s)) < MinTokens

RECURSIVE ScanPhrases(_, _, _)
\* lines 133-141: the loop over noun_phrases for one word, at phrase i
ScanPhrases(phrases, word, i) ==
    IF i > Len(phrases) THEN <<>>
    ELSE IF phrases[i][1] = "'" THEN <<>>
    ELSE IF Contains(phrases[i], word) THEN LastN(Split(phrases[i]), LastWords)
    ELSE ScanPhrases(phrases, word, i + 1)

\* lines 131-145: the loop over tags ends with the break of line 145 in its
\* first round, so word is tags[0][0]
ReplaceNouns(s) ==
    LET tags == PosTagSentence(s)
        word == tags[1].w
        found == ScanPhrases(NounPhrases(s), word, 1)
    IN  IF Len(tags) = 0 THEN <<>>
        ELSE IF Len(found) = 0 THEN <<word>>
        ELSE found

RECURSIVE KeyOf(_, _, _)
\* lines 150-155: val after the loop, at word i
KeyOf(replace_nouns, i, val) ==
    IF i > Len(replace_nouns) THEN val
    ELSE KeyOf(replace_nouns, i + 1,
               IF Len(replace_nouns[i]) < val THEN Len(replace_nouns[i]) ELSE val)

\* one run of blanks, however many words are blanked
BlanksPhrase_Single(replace_nouns) == Repeat("_", BlankLen)

\* line 170: ("__________" * len(replace_nouns)).strip()
BlanksPhrase(replace_nouns) == Repeat("_", BlankLen * Len(replace_nouns))

\* lines 169-172: re.sub of the first match, ignoring case, count=1
Substitute(text, replace_phrase, blanks_phrase) ==
    LET i == FirstMatch(text, replace_phrase, TRUE)
    IN  IF i = 0 THEN text
        ELSE Splice(text, i, Len(replace_phrase), blanks_phrase)

\* lines 162-167: trivial["Similar"], as answer_options answers
SimilarOf(h, replace_nouns) ==
    IF Len(replace_nouns) = 1
    THEN answer_options(h, replace_nouns[1])
    ELSE [exc |-> "", val |-> <<>>]

identify_potential_questions(h, s) ==
    IF s.tagFails THEN Raise("TypeError")
    ELSE IF Ineligible(s) THEN ReturnNone
    ELSE LET replace_nouns == ReplaceNouns(s)
             similar == SimilarOf(h, replace_nouns)
         IN  IF Len(replace_nouns) = 0 THEN ReturnNone
             ELSE IF similar.exc # "" THEN Raise(similar.exc)
             ELSE Return([Answer |-> Join(replace_nouns, <<" ">>),
                          Key |-> KeyOf(replace_nouns, 1, KeyInit),
                          Similar |-> similar.val,
                          Question |-> Substitute(SentenceText(s),
                                                  Join(replace_nouns, <<" ">>),
                                                  BlanksPhrase(replace_nouns))])

----------------------------------------------------------------------------
(* Inputs *)

Tank == <<"t", "a", "n", "k">>
Fish == <<"F", "i", "s", "h">>

\* tagged word tokens the sentences are made of
TokenPool ==
    { Tok(Tank, "NN"),
      Tok(Fish, "NNP"),
      Tok(<<"o", "f">>, "IN"),
      Tok(<<"n", "e", "t", "s">>, "NNS"),
      Tok(<<"'", "t">>, "NN"),
      Tok(<<"f", "i", "s", "h">>, "NN"),
      Tok(<<"_", "t", "a", "n", "k">>, "NN"),
      Tok(<<"s", "o">>, "RB") }

TokenSeqs == UNION { [1..n -> TokenPool] : n \in 1..MaxTokens }

Sentence(toks, sep, charTag, tagFails) ==
    [toks |-> toks, sep |-> sep, charTag |-> charTag, tagFails |-> tagFails]

\* every sentence of at most MaxTokens tokens, as the annotator may answer for it
Sentences ==
    { Sentence(t, sep, c, FALSE) : t \in TokenSeqs, sep \in 1..2, c \in {"RB", "NNP"} }
        \cup { Sentence(t, 1, "NNP", TRUE) : t \in [1..MinTokens -> {Tok(Tank, "NN")}] }

\* first lemma names of hyponyms: position i holds the looked-up word's own
\* lemma or a sibling's
Sibling(i) == IF i % 2 = 0 THEN <<"r", "e", "d", "_", "f", "o", "x">> ELSE <<"c", "o", "d">>

HyponymLists(own) ==
    UNION { { [i \in 1..n |-> IF i \in S THEN own ELSE Sibling(i)] : S \in SUBSET (1..n) }
            : n \in 0..MaxHyponyms }

Lex(synsets, hypernyms, hyponyms) ==
    [synsets |-> synsets, hypernyms |-> hypernyms, hyponyms |-> hyponyms]

NoSynsets == Lex(0, 0, <<>>)
NoHypernym == Lex(1, 0, <<>>)
\* MaxHyponyms hyponyms, the second of them the word Fish itself
FullLex == Lex(1, 1, [i \in 1..MaxHyponyms |-> IF i = 2 THEN Fish ELSE Sibling(i)])

----------------------------------------------------------------------------
(* identify_potential_questions on one sentence *)

Idle ==
    /\ num_questions = 0
    /\ sent_idx = 0
    /\ question_sets = <<>>
    /\ question_answers = <<>>
    /\ questions = <<>>
    /\ answers = <<>>
    /\ rand_num = -1
    /\ exc = ""

\* a sentence whose single blanked word is Fish
FishSentence == Sentence([i \in 1..MinTokens |-> IF i = 1 THEN Tok(Fish, "NNP")
                                                  ELSE Tok(<<"s", "o">>, "RB")],
                         1, "NNP", FALSE)

InitIPQ ==
    /\ \/ /\ summary \in { <<s>> : s \in Sentences }
          /\ lex \in {NoSynsets, NoHypernym, FullLex}
       \/ /\ summary = <<FishSentence>>
          /\ lex \in { Lex(1, 1, l) : l \in HyponymLists(Fish) }
    /\ splitFails = FALSE
    /\ pc = "call"
    /\ ret = ReturnNone
    /\ Idle

Identify ==
    /\ pc = "call"
    /\ ret' = identify_potential_questions(lex, summary[1])
    /\ pc' = "returned"
    /\ UNCHANGED <<summary, splitFails, lex, num_questions, sent_idx, question_sets,
                   question_answers, questions, answers, rand_num, exc>>

NextIPQ == Identify

SpecIPQ == InitIPQ /\ [][NextIPQ]_vars

----------------------------------------------------------------------------
(* generate_test over a corpus *)

So == Tok(<<"s", "o">>, "RB")

\* sentences of the corpora: two and one blanked words with Key 4, a blanked
\* first character with Key 1, a short sentence, a sentence whose first
\* character is tagged RB, and a sentence the tagger raises on
CorpusPool ==
    { Sentence(<<Tok(Tank, "NN"), Tok(Tank, "NN"), So, So>>, 1, "NNP", FALSE),
      Sentence(<<Tok(Tank, "NN"), Tok(Fish, "NNP"), So, So>>, 1, "NNP", FALSE),
      FishSentence,
      Sentence(<<So, Tok(Tank, "NN"), Tok(Tank, "NN"), So>>, 1, "NNP", FALSE),
      Sentence(<<Tok(Tank, "NN"), Tok(Tank, "NN"), So>>, 1, "NNP", FALSE),
      Sentence(<<Tok(Tank, "NN"), Tok(Tank, "NN"), So, So>>, 1, "RB", FALSE),
      Sentence(<<Tok(Tank, "NN"), Tok(Tank, "NN"), So, So>>, 1, "NNP", TRUE) }

Corpora == UNION { [1..n -> CorpusPool] : n \in 0..MaxSentences }

Init ==
    /\ \/ splitFails = FALSE /\ summary \in Corpora
       \/ splitFails = TRUE /\ summary = <<>>
    /\ lex \in {NoSynsets, NoHypernym, FullLex}
    /\ num_questions \in -1..MaxQuestions
    /\ pc = "get_question_sets"
    /\ sent_idx = 0
    /\ question_sets = <<>>
    /\ question_answers = <<>>
    /\ questions = <<>>
    /\ answers = <<>>
    /\ rand_num = -1
    /\ exc = ""
    /\ ret = ReturnNone

\* lines 71-77 and 85: when sent_tokenize raises, the exception is logged and
\* `sentences` stays unbound, so the for statement raises
SentTokenize ==
    /\ pc = "get_question_sets"
    /\ IF splitFails
       THEN pc' = "raised" /\ exc' = "UnboundLocalError"
       ELSE pc' = "sentences" /\ exc' = exc
    /\ UNCHANGED <<summary, splitFails, lex, num_questions, sent_idx, question_sets,
                   question_answers, questions, answers, rand_num, ret>>

\* lines 85-88: one round of the loop over sentences
NextSentence ==
    /\ pc = "sentences"
    /\ sent_idx < Len(summary)
    /\ LET question_set == identify_potential_questions(lex, summary[sent_idx + 1])
       IN  /\ ret' = question_set
           /\ IF question_set.kind = "Raise"
              THEN /\ pc' = "raised"
                   /\ exc' = question_set.exc
                   /\ UNCHANGED <<sent_idx, question_sets>>
              ELSE /\ sent_idx' = sent_idx + 1
                   /\ question_sets' = IF question_set.kind = "Record"
                                       THEN Append(question_sets, question_set.rec)
                                       ELSE question_sets
                   /\ UNCHANGED <<pc, exc>>
    /\ UNCHANGED <<summary, splitFails, lex, num_questions, question_answers,
                   questions, answers, rand_num>>

\* the filter compares with >= instead of >, and from 1
Passes_Loose(question_set) == question_set.Key >= 1

\* line 53
Passes(question_set) == question_set.Key > KeyThreshold

\* lines 89 and 50-57: get_question_sets returns, the records are filtered
Filter ==
    /\ pc = "sentences"
    /\ sent_idx = Len(summary)
    /\ question_answers' = SelectSeq(question_sets, Passes)
    /\ pc' = "sample"
    /\ UNCHANGED <<summary, splitFails, lex, num_questions, sent_idx, question_sets,
                   questions, answers, rand_num, exc, ret>>

InSeq(x, seq) == \E k \in 1..Len(seq) : seq[k] = x

\* the loop runs one round too many
WhileCond_OffByOne == Len(questions) <= num_questions

\* line 58: the condition of the while loop
WhileCond == Len(questions) < num_questions

\* the test for a duplicate is left out
Accepts_Always(i) == TRUE

\* the test for a duplicate is inverted
Accepts_Inverted(i) == InSeq(question_answers[i + 1].Question, questions)

\* line 60: the record drawn is not yet in the test
Accepts(i) == ~InSeq(question_answers[i + 1].Question, questions)

\* lines 58-62: one round of the while loop in which randint returns i
Draw(i) ==
    /\ pc = "sample"
    /\ WhileCond
    /\ i \in 0..(Len(question_answers) - 1)
    /\ rand_num' = i
    /\ IF Accepts(i)
       THEN /\ questions' = Append(questions, question_answers[i + 1].Question)
            /\ answers' = Append(answers, question_answers[i + 1].Answer)
       ELSE UNCHANGED <<questions, answers>>
    /\ UNCHANGED <<summary, splitFails, lex, num_questions, pc, sent_idx,
                   question_sets, question_answers, exc, ret>>

\* line 59: np.random.randint(0, 0) raises ValueError (low >= high)
DrawError ==
    /\ pc = "sample"
    /\ WhileCond
    /\ Len(question_answers) = 0
    /\ pc' = "raised"
    /\ exc' = "ValueError"
    /\ UNCHANGED <<summary, splitFails, lex, num_questions, sent_idx, question_sets,
                   question_answers, questions, answers, rand_num, ret>>

\* line 63
ReturnTest ==
    /\ pc = "sample"
    /\ ~WhileCond
    /\ pc' = "returned"
    /\ UNCHANGED <<summary, splitFails, lex, num_questions, sent_idx, question_sets,
                   question_answers, questions, answers, rand_num, exc, ret>>

Next ==
    \/ SentTokenize
    \/ NextSentence
    \/ Filter
    \/ \E i \in 0..(MaxSentences - 1) : Draw(i)
    \/ DrawError
    \/ ReturnTest

Spec == Init /\ [][Next]_vars

\* The interpreter keeps running the sampling loop, and np.random.randint draws every
\* index again and again: a draw that would change the state is not put off
\* forever
FairSpec ==
    /\ Spec
    /\ WF_vars(ReturnTest)
    /\ WF_vars(DrawError)
    /\ \A i \in 0..(MaxSentences - 1) : WF_vars(Draw(i))

----------------------------------------------------------------------------
(* Properties of generate_test *)

\* the distinct question texts among the records that pass the filter
DistinctQuestions ==
    Cardinality({ question_answers[j].Question : j \in 1..Len(question_answers) })

\* generate_test has reached the sampling loop, or left it
Sampled ==
    \/ pc = "sample"
    \/ pc = "returned"
    \/ pc = "raised" /\ exc = "ValueError"

\* C1 as stated: whenever generate_test returns, questions and answers have
\* the same length and that length is num_questions, for every integer
\* num_questions.
C1_AsStated ==
    pc = "returned" =>
        Len(questions) = Len(answers) /\ Len(questions) = num_questions

\* C1 amended: whenever generate_test returns, questions and answers have the
\* same length; that length is num_questions when num_questions >= 0 and 0
\* when num_questions is negative.
C1_Lengths ==
    pc = "returned" =>
        /\ Len(questions) = Len(answers)
        /\ Len(questions) = (IF num_questions >= 0 THEN num_questions ELSE 0)

C1_Witness ==
    /\ pc = "returned"
    /\ num_questions = 2
    /\ Len(questions) = 2
    /\ Len(answers) = 2

\* C2: in the sampling loop and in the returned test, every (question, answer)
\* pair is the Question and Answer of a candidate record with Key > 3, and the
\* questions are pairwise distinct.
C2_Selected ==
    pc \in {"sample", "returned"} =>
        /\ Len(answers) = Len(questions)
        /\ \A k \in 1..Len(questions) :
              \E j \in 1..Len(question_sets) :
                  /\ question_sets[j].Key > 3
                  /\ question_sets[j].Question = questions[k]
                  /\ question_sets[j].Answer = answers[k]
        /\ \A k, l \in 1..Len(questions) : questions[k] = questions[l] => k = l

C2_Witness ==
    /\ pc = "sample"
    /\ Len(questions) = 2
    /\ \E j \in 1..Len(question_sets) : question_sets[j].Key <= 3

\* C3 as stated: when the filtered records hold fewer distinct question texts
\* than num_questions, the empty filtered set included, the sampling loop
\* neither returns nor ends in an error.
C3_AsStated ==
    (Sampled /\ DistinctQuestions < num_questions) => pc = "sample"

\* C3 amended: when the filtered set is not empty and holds fewer distinct
\* question texts than num_questions, the sampling loop neither returns nor
\* ends in an error; when the filtered set is empty and num_questions >= 1,
\* the loop does not return: its first draw raises ValueError.
C3_Insufficient ==
    (Sampled /\ DistinctQuestions < num_questions) =>
        /\ Len(question_answers) > 0 => pc = "sample"
        /\ Len(question_answers) = 0 => pc # "returned"
        /\ pc = "raised" => Len(question_answers) = 0 /\ Len(questions) = 0

C3_Witness ==
    /\ pc = "sample"
    /\ Len(question_answers) = 2
    /\ DistinctQuestions = 1
    /\ num_questions = 2
    /\ Len(questions) = 1
    /\ rand_num = 1

\* C4: when the corpus yields fewer eligible distinct questions than
\* num_questions, here as in Scenario C two eligible sentences or more,
\* generate_test ends in InsufficientCandidatesError after a bounded number of
\* draws.
C4_InsufficientCandidatesError ==
    (pc = "sample" /\ Len(question_answers) >= 2 /\ DistinctQuestions < num_questions)
        ~> (pc = "raised" /\ exc = "InsufficientCandidatesError")

\* C8: a sentence on which tagging fails is skipped: generate_test does not
\* end in that sentence's exception, and the sentences after it are handled.
C8_SentenceSkipped ==
    \A k \in 1..Len(summary) :
        summary[k].tagFails => ~(pc = "raised" /\ sent_idx = k - 1)

\* C9: when the filtered records hold at least num_questions distinct question
\* texts, the sampling loop under fair draws ends and returns; a round of the
\* loop appends the drawn question and one answer when the question is new
\* and leaves the test alone otherwise.
C9_Terminates ==
    /\ (pc = "sample" /\ DistinctQuestions >= num_questions) ~> (pc = "returned")
    /\ [][(pc = "sample" /\ pc' = "sample") =>
            LET q == question_answers[rand_num' + 1].Question
            IN  IF \E k \in 1..Len(questions) : questions[k] = q
                THEN questions' = questions /\ answers' = answers
                ELSE /\ questions' = Append(questions, q)
                     /\ Len(answers') = Len(answers) + 1]_vars

C9_Witness ==
    /\ pc = "returned"
    /\ num_questions = 2
    /\ DistinctQuestions = 2
    /\ Len(questions) = 2
    /\ questions[1] = question_answers[2].Question

----------------------------------------------------------------------------
(* Properties of identify_potential_questions and answer_options *)

\* the sentence identify_potential_questions was called on, and its result
TheSentence == summary[1]
Produced == pc = "returned" /\ ret.kind = "Record"

\* C5: a sentence of fewer than 4 word tokens, or whose first token is tagged
\* RB, yields no record: identify_potential_questions returns None.
C5_NotEligible ==
    (pc = "returned" /\ ret.kind # "Raise") =>
        ((Len(TheSentence.toks) < 4 \/ TheSentence.toks[1].t = "RB")
            => ret.kind = "None")

\* same text outside the span [i, i + n), same text up to case inside it
SameUpToCaseOfSpan(a, b, i, n) ==
    /\ Len(a) = Len(b)
    /\ \A k \in 1..Len(a) :
          IF k >= i /\ k < i + n THEN Lower(a[k]) = Lower(b[k]) ELSE a[k] = b[k]

Siblings(word) ==
    LET forms == [k \in 1..Len(lex.hyponyms) |-> ReplaceChar(lex.hyponyms[k], "_", " ")]
        Other(form) == form # word
    IN  SelectSeq(forms, Other)

C10_WordsToBlank ==
    LET word == TheSentence.toks[1].w
        phrases == NounPhrases(TheSentence)
        hits == { i \in 1..Len(phrases) :
                    /\ Contains(phrases[i], word)
                    /\ \A j \in 1..i : phrases[j][1] # "'" }
        first == CHOOSE i \in hits : \A j \in hits : i <= j
        words == Split(phrases[first])
    IN  IF hits = {} THEN <<word>>
        ELSE SubSeq(words, Max(1, Len(words) - 1), Len(words))

\* C10: the words blanked are the last two words of the first phrase that
\* holds the first token's word, else that word; Similar comes from the
\* distractor generator when one word is blanked and is empty otherwise.
C10_FirstToken ==
    Produced =>
        /\ ret.rec.Answer = Join(C10_WordsToBlank, <<" ">>)
        /\ Len(C10_WordsToBlank) = 1 =>
              ret.rec.Similar = answer_options(lex, C10_WordsToBlank[1]).val
        /\ Len(C10_WordsToBlank) # 1 => ret.rec.Similar = <<>>

====
